---- MODULE Spec2Model ----
(***************************************************************************)
(* A model of recipe_parser.py: the RecipeParser object (its parse_*      *)
(* methods, the ingredient tokenizer, the SQLite persistence and the      *)
(* image save) and the ConfigLoader section lookups.                      *)
(*                                                                         *)
(* Python strings are sequences of one-character strings, so that         *)
(* str.split, str.join, str.isnumeric, re.sub and the `in` substring test *)
(* are computed character by character.  Python values of mixed type      *)
(* (None / str / int) are the records None, StrV(s), IntV(n).  A dict is a  *)
(* function; dict.get(k, d) is Get(d, k, default).  An uncaught exception *)
(* of a call is recorded in `raised`, what the call printed in `printed`. *)
(***************************************************************************)
EXTENDS Integers, Sequences, FiniteSets, TLC

VARIABLES
    config_data,        \* ConfigLoader.config_data
    alive,              \* a RecipeParser instance has been constructed
    recipe_source,      \* RecipeParser fields
    recipe_id,
    recipe_name,
    recipe_description,
    number_of_persons,  \* _number_of_persons
    time_duration,
    source_url,
    ingredients_source,
    preparation_steps,
    soup,
    RecipeInfo,         \* committed rows of recipe_database.db
    Ingredients,
    Preparation,
    folders,            \* image folders that exist on disk
    files,              \* image files written
    last,               \* the last call made
    raised,             \* the exception that call let escape, or "none"
    printed,            \* the messages that call printed
    pc,                 \* position of the __main__ script
    line,               \* tokenizer: the ingredient line under test
    tok,                \* tokenizer: the result of the call
    cfg_key,            \* lookups: the source key asked for
    cfg_result          \* lookups: the value returned

vars == <<config_data, alive, recipe_source, recipe_id, recipe_name,
          recipe_description, number_of_persons, time_duration, source_url,
          ingredients_source, preparation_steps, soup, RecipeInfo, Ingredients,
          Preparation, folders, files, last, raised, printed, pc, line, tok,
          cfg_key, cfg_result>>

parserVars == <<alive, recipe_source, recipe_id, recipe_name, recipe_description,
                number_of_persons, time_duration, source_url, ingredients_source,
                preparation_steps, soup>>
dbVars == <<RecipeInfo, Ingredients, Preparation>>
fsVars == <<folders, files>>
callVars == <<last, raised, printed>>
tokVars == <<line, tok>>
cfgVars == <<cfg_key, cfg_result>>

----------------------------------------------------------------------------
(* Bounds *)
MaxLen == 9        \* longest ingredient line the tokenizer is given
MaxRows == 2       \* RecipeInfo rows after which no new recipe is saved

----------------------------------------------------------------------------
(* Python values *)
None == [k |-> "None"]
StrV(x) == [k |-> "str", s |-> x]
IntV(i) == [k |-> "int", n |-> i]

Digits == {"0", "1", "2", "3", "4", "5", "6", "7", "8", "9"}
Whitespace == {" ", "\t", "\n", "\r"}

EmptyDict == [x \in {} |-> None]
Get(d, key, default) == IF key \in DOMAIN d THEN d[key] ELSE default
\* d.get(key) of a dict of strings: the string, or None
get(d, key) == IF key \in DOMAIN d THEN StrV(d[key]) ELSE None

----------------------------------------------------------------------------
(* str.split(), ' '.join(), str.isnumeric() *)

RECURSIVE SplitFrom(_, _, _)
SplitFrom(s, i, cur) ==
    IF i > Len(s)
    THEN IF cur = <<>> THEN <<>> ELSE <<cur>>
    ELSE IF s[i] \in Whitespace
         THEN IF cur = <<>> THEN SplitFrom(s, i + 1, <<>>)
              ELSE <<cur>> \o SplitFrom(s, i + 1, <<>>)
         ELSE SplitFrom(s, i + 1, Append(cur, s[i]))

split(s) == SplitFrom(s, 1, <<>>)

RECURSIVE join(_)
join(words) ==
    IF words = <<>> THEN <<>>
    ELSE IF Len(words) = 1 THEN words[1]
    ELSE words[1] \o <<" ">> \o join(Tail(words))

isnumeric(s) == Len(s) > 0 /\ \A i \in 1..Len(s) : s[i] \in Digits

UnitLen == 5

(* parse_amount_unit_ingredient: the triple returned, or the IndexError   *)
(* of ingredient_list[1] on a one-token line.                             *)
TupleResult(a, u, g) == [raised |-> "none", amount |-> a, unit |-> u, ingredient |-> g]
TokRaise(e) == [raised |-> e, amount |-> None, unit |-> None, ingredient |-> None]

\* the length test one too low: a four-character second token is no unit
parse_amount_unit_ingredient_low(ingredient) ==
    LET ingredient_list == split(ingredient) IN
    IF ingredient_list # <<>>
    THEN IF isnumeric(ingredient_list[1])
         THEN IF Len(ingredient_list) < 2
              THEN TokRaise("IndexError")
              ELSE IF Len(ingredient_list[2]) >= UnitLen - 1
                   THEN TupleResult(StrV(ingredient_list[1]), None,
                                    StrV(join(Tail(ingredient_list))))
                   ELSE TupleResult(StrV(ingredient_list[1]), StrV(ingredient_list[2]),
                                    StrV(join(Tail(Tail(ingredient_list)))))
         ELSE TupleResult(IntV(1), None, StrV(join(ingredient_list)))
    ELSE TupleResult(IntV(1), None, StrV(ingredient))

\* the length test strict: a five-character second token is taken as the unit
parse_amount_unit_ingredient_strict(ingredient) ==
    LET ingredient_list == split(ingredient) IN
    IF ingredient_list # <<>>
    THEN IF isnumeric(ingredient_list[1])
         THEN IF Len(ingredient_list) < 2
              THEN TokRaise("IndexError")
              ELSE IF Len(ingredient_list[2]) > UnitLen
                   THEN TupleResult(StrV(ingredient_list[1]), None,
                                    StrV(join(Tail(ingredient_list))))
                   ELSE TupleResult(StrV(ingredient_list[1]), StrV(ingredient_list[2]),
                                    StrV(join(Tail(Tail(ingredient_list)))))
         ELSE TupleResult(IntV(1), None, StrV(join(ingredient_list)))
    ELSE TupleResult(IntV(1), None, StrV(ingredient))

\* the line itself returned as the name of a line with no leading number
parse_amount_unit_ingredient_raw(ingredient) ==
    LET ingredient_list == split(ingredient) IN
    IF ingredient_list # <<>>
    THEN IF isnumeric(ingredient_list[1])
         THEN IF Len(ingredient_list) < 2
              THEN TokRaise("IndexError")
              ELSE IF Len(ingredient_list[2]) >= UnitLen
                   THEN TupleResult(StrV(ingredient_list[1]), None,
                                    StrV(join(Tail(ingredient_list))))
                   ELSE TupleResult(StrV(ingredient_list[1]), StrV(ingredient_list[2]),
                                    StrV(join(Tail(Tail(ingredient_list)))))
         ELSE TupleResult(IntV(1), None, StrV(ingredient))
    ELSE TupleResult(IntV(1), None, StrV(ingredient))

parse_amount_unit_ingredient(ingredient) ==
    LET ingredient_list == split(ingredient) IN
    IF ingredient_list # <<>>
    THEN IF isnumeric(ingredient_list[1])
         THEN IF Len(ingredient_list) < 2
              THEN TokRaise("IndexError")
              ELSE IF Len(ingredient_list[2]) >= UnitLen
                   THEN TupleResult(StrV(ingredient_list[1]), None,
                                    StrV(join(Tail(ingredient_list))))
                   ELSE TupleResult(StrV(ingredient_list[1]), StrV(ingredient_list[2]),
                                    StrV(join(Tail(Tail(ingredient_list)))))
         ELSE TupleResult(IntV(1), None, StrV(join(ingredient_list)))
    ELSE TupleResult(IntV(1), None, StrV(ingredient))

----------------------------------------------------------------------------
(* The configuration document (config.json) *)

SelName == <<"h", "1">>
SelDescription == <<"p">>
SelPersons == <<"e", "m">>
SelTime == <<"b">>
SelIngredients == <<"u", "l">>
SelList == <<"o", "l">>
SelScript == <<"s", "c", "r", "i", "p", "t">>
SelListDescription == <<"o", "l", ".", "d", "e", "s", "c", "r", "i", "p", "t", "i", "o", "n">>
SelContainer == <<"d", "i", "v">>
SelImg == <<"i", "m", "g">>
AttrAlt == <<"a", "l", "t">>
AttrSrc == <<"s", "r", "c">>
FolderImages == <<"i", "m", "g", "s">>

InfoFull == [x \in {"recipe_name", "recipe_description", "recipe_persons", "recipe_time"} |->
                CASE x = "recipe_name" -> SelName
                  [] x = "recipe_description" -> SelDescription
                  [] x = "recipe_persons" -> SelPersons
                  [] x = "recipe_time" -> SelTime]
InfoWithout(key) == [x \in DOMAIN InfoFull \ {key} |-> InfoFull[x]]
IngredientsFull == [x \in {"recipe_ingredients"} |-> SelIngredients]
PreparationWith(sel) == [x \in {"recipe_prepration"} |-> sel]
ImageFull == [x \in {"image_folder", "image_container_selector", "image_tag_selector",
                     "image_name_attribute"} |->
                CASE x = "image_folder" -> FolderImages
                  [] x = "image_container_selector" -> SelContainer
                  [] x = "image_tag_selector" -> SelImg
                  [] x = "image_name_attribute" -> AttrAlt]

Sections == {"recipe_info_config", "ingredients_config", "preparation_config", "image_config"}

EntryWith(info, ingr, prep, image) ==
    [x \in Sections |->
        CASE x = "recipe_info_config" -> info
          [] x = "ingredients_config" -> ingr
          [] x = "preparation_config" -> prep
          [] x = "image_config" -> image]
Without(entry, keys) == [x \in DOMAIN entry \ keys |-> entry[x]]

EntryList == EntryWith(InfoFull, IngredientsFull, PreparationWith(SelList), ImageFull)
EntryScript == EntryWith(InfoFull, IngredientsFull, PreparationWith(SelScript), ImageFull)
EntryDescription ==
    EntryWith(InfoFull, IngredientsFull, PreparationWith(SelListDescription), ImageFull)
\* sections that are present and empty, or lack a locator key
EntryNoTime ==
    EntryWith(InfoWithout("recipe_time"), IngredientsFull, PreparationWith(SelList), ImageFull)
EntryNoDescription ==
    EntryWith(InfoWithout("recipe_description"), IngredientsFull, PreparationWith(SelList),
              ImageFull)
EntryNoIngredients == EntryWith(InfoFull, EmptyDict, PreparationWith(SelList), ImageFull)
EntryNoPreparation == EntryWith(InfoFull, IngredientsFull, EmptyDict, ImageFull)
EntryNoLocators == EntryWith(EmptyDict, EmptyDict, EmptyDict, EmptyDict)
\* an entry from which sections are missing
EntryImageOnly == Without(EntryList, {"recipe_info_config", "ingredients_config",
                                      "preparation_config"})
EntryNoImage == Without(EntryList, {"image_config"})
EntryEmpty == EmptyDict

KeyA == <<"a">>
KeyB == <<"b">>
KeyZ == <<"z">>     \* never a key of the configuration document

(* The configuration documents of the parser runs: one source key, bound *)
(* to an entry of each kind.                                              *)
MainEntries ==
    {EntryList, EntryScript, EntryDescription, EntryNoTime, EntryNoDescription,
     EntryNoIngredients, EntryNoPreparation, EntryImageOnly, EntryNoImage, EntryEmpty}
ConfigOf(entry) == [x \in {KeyA} |-> entry]
MainConfigs == {ConfigOf(entry) : entry \in MainEntries}

(* The configuration documents of the lookup runs: every document over    *)
(* two source keys, each absent or bound to one of the entries.           *)
LookupEntries ==
    {EntryList, EntryScript, EntryNoLocators, EntryImageOnly, EntryNoImage, EntryEmpty}
LookupKeys == {KeyA, KeyB}
ConfigDocs == UNION {[D -> LookupEntries] : D \in SUBSET LookupKeys}
AskedKeys == LookupKeys \cup {KeyZ}

----------------------------------------------------------------------------
(* ConfigLoader: the four section lookups.  `recipe_info` is bound only   *)
(* inside `if data:`, so an absent key or an empty entry leaves the       *)
(* returned local unbound.                                                *)
Return(v) == [raised |-> "none", value |-> v]
Raise(e) == [raised |-> e, value |-> EmptyDict]

get_recipe_info_config(data_of, source_recipe) ==
    LET data == Get(data_of, source_recipe, EmptyDict) IN
    IF DOMAIN data # {} THEN Return(Get(data, "recipe_info_config", EmptyDict))
    ELSE Raise("UnboundLocalError")

get_preparation_config(data_of, source_recipe) ==
    LET data == Get(data_of, source_recipe, EmptyDict) IN
    IF DOMAIN data # {} THEN Return(Get(data, "preparation_config", EmptyDict))
    ELSE Raise("UnboundLocalError")

get_ingredients_config(data_of, source_recipe) ==
    LET data == Get(data_of, source_recipe, EmptyDict) IN
    IF DOMAIN data # {} THEN Return(Get(data, "ingredients_config", EmptyDict))
    ELSE Raise("UnboundLocalError")

get_images_config(data_of, source_recipe) ==
    LET data == Get(data_of, source_recipe, EmptyDict) IN
    IF DOMAIN data # {} THEN Return(Get(data, "image_config", EmptyDict))
    ELSE Raise("UnboundLocalError")


----------------------------------------------------------------------------
(* The parsed page (self.soup): what each selector's first match is.      *)
(* An element carries its get_text(strip=True), the texts of its <li>     *)
(* descendants, what json.loads makes of its .string, and the first tag   *)
(* the image selector finds inside it.                                    *)

NoString == [kind |-> "None"]            \* Tag.string is None
Malformed == [kind |-> "malformed"]      \* json.loads raises JSONDecodeError
JsonArray == [kind |-> "array"]          \* json.loads returns a list
JsonObject(has, instr) == [kind |-> "object", has |-> has, instr |-> instr]

NoImg == [found |-> FALSE]
Img(attrs) == [found |-> TRUE, attrs |-> attrs]
NoElem == [found |-> FALSE, text |-> <<>>, li |-> <<>>, json |-> NoString, img |-> NoImg]
Text(t) == [found |-> TRUE, text |-> t, li |-> <<>>, json |-> NoString, img |-> NoImg]
List(items) == [found |-> TRUE, text |-> <<>>, li |-> items, json |-> NoString, img |-> NoImg]
\* a list of one item: .string descends to the item's text, which is no JSON
ListOfOne(item) ==
    [found |-> TRUE, text |-> item, li |-> <<item>>, json |-> Malformed, img |-> NoImg]
Script(j) == [found |-> TRUE, text |-> <<>>, li |-> <<>>, json |-> j, img |-> NoImg]
Container(i) == [found |-> TRUE, text |-> <<>>, li |-> <<>>, json |-> NoString, img |-> i]

Pie == <<"P", "i", "e">>
Jam == <<"J", "a", "m">>
Mix == <<"M", "i", "x">>
Bake == <<"B", "a", "k", "e">>
ImgUrl == <<"u">>
AttrsFull == [x \in {AttrSrc, AttrAlt} |-> IF x = AttrSrc THEN ImgUrl ELSE Pie]
AttrsNoAlt == [x \in {AttrSrc} |-> ImgUrl]

Page1 ==
    [x \in {SelName, SelPersons, SelTime, SelIngredients, SelList, SelScript, SelContainer} |->
        CASE x = SelName -> Text(Pie)
          [] x = SelPersons -> Text(<<"1", "-", "2", " ", "p">>)
          [] x = SelTime -> Text(<<"3", "0", "m">>)
          [] x = SelIngredients -> List(<< <<"2", " ", "g", " ", "a">>, <<"a">> >>)
          [] x = SelList -> List(<<Mix, Bake>>)
          [] x = SelScript -> Script(JsonObject(TRUE, <<Mix, Bake>>))
          [] x = SelContainer -> Container(Img(AttrsFull))]

\* the same recipe name as Page1; a one-token numeric ingredient line
Page2 ==
    [x \in {SelName, SelPersons, SelIngredients, SelScript, SelContainer} |->
        CASE x = SelName -> Text(Pie)
          [] x = SelPersons -> Text(<<"a", "a">>)
          [] x = SelIngredients -> List(<< <<"2">> >>)
          [] x = SelScript -> Script(Malformed)
          [] x = SelContainer -> Container(NoImg)]

\* no name, no duration, an empty persons element, an empty script element
Page3 ==
    [x \in {SelPersons, SelList, SelScript, SelListDescription} |->
        CASE x = SelPersons -> Text(<<>>)
          [] x = SelList -> List(<<>>)
          [] x = SelScript -> Script(NoString)
          [] x = SelListDescription -> ListOfOne(Mix)]

Page4 ==
    [x \in {SelName, SelIngredients, SelList, SelScript, SelContainer} |->
        CASE x = SelName -> Text(Jam)
          [] x = SelIngredients -> List(<< <<"2", " ", "a", "a", "a", "a", "a">> >>)
          [] x = SelList -> List(<<Bake>>)
          [] x = SelScript -> Script(JsonObject(FALSE, <<>>))
          [] x = SelContainer -> Container(Img(AttrsNoAlt))]

Page5 ==
    [x \in {SelName, SelScript} |->
        CASE x = SelName -> Text(Jam)
          [] x = SelScript -> Script(JsonArray)]

Urls == {"u1", "u2", "u3", "u4", "u5", "u404"}
StatusOk == 200
Web(url) ==
    CASE url = "u1" -> [status_code |-> StatusOk, page |-> Page1]
      [] url = "u2" -> [status_code |-> StatusOk, page |-> Page2]
      [] url = "u3" -> [status_code |-> StatusOk, page |-> Page3]
      [] url = "u4" -> [status_code |-> StatusOk, page |-> Page4]
      [] url = "u5" -> [status_code |-> StatusOk, page |-> Page5]
      [] OTHER -> [status_code |-> 404, page |-> EmptyDict]

(* The site names typed at the prompt. *)
SiteInputs == {<<"a">>, <<" ", "A">>, <<"z">>}

lower(c) == CASE c = "A" -> "a" [] c = "B" -> "b" [] c = "Z" -> "z" [] OTHER -> c

RECURSIVE Flatten(_)
Flatten(words) == IF words = <<>> THEN <<>> ELSE words[1] \o Flatten(Tail(words))

\* "".join(recipe_source.lower().split())
normalize_source(site) == Flatten(split([i \in 1..Len(site) |-> lower(site[i])]))

----------------------------------------------------------------------------
(* Helpers of the parse methods *)

Unbound == [k |-> "Unbound"]    \* a local never assigned

\* soup.select_one(selector): the first match or None; a selector that is
\* not a string is rejected with an exception.
select_one(page, selector) ==
    IF selector.k # "str" THEN [raised |-> "TypeError", elem |-> NoElem]
    ELSE [raised |-> "none", elem |-> Get(page, selector.s, NoElem)]

\* re.sub(r'\D', '', persons)
RECURSIVE only_digits(_)
only_digits(t) ==
    IF t = <<>> THEN <<>>
    ELSE IF t[1] \in Digits THEN <<t[1]>> \o only_digits(Tail(t))
    ELSE only_digits(Tail(t))

truthy(v) == v.k = "str" /\ v.s # <<>>

\* the number_of_persons setter
set_number_of_persons(persons) ==
    IF truthy(persons) THEN StrV(only_digits(persons.s)) ELSE persons

\* sub in s
Contains(s, sub) ==
    \E i \in 1..(Len(s) - Len(sub) + 1) : SubSeq(s, i, i + Len(sub) - 1) = sub


\* the text taken without the test for a match
extract_text_unchecked(r) == StrV(r.elem.text)

\* `if r: x = r.get_text(strip=True) else: x = None`
extract_text(r) == IF r.elem.found THEN StrV(r.elem.text) ELSE None

\* reading a local: UnboundLocalError when it was never assigned
Locate(page, local) ==
    IF local = Unbound THEN [raised |-> "UnboundLocalError", elem |-> NoElem]
    ELSE select_one(page, local)

----------------------------------------------------------------------------
(* parse_recipe_info.  The try block stops at the first missing key, so   *)
(* the locals after it stay unassigned; the except clause prints and the  *)
(* method goes on to use them.                                            *)
InfoLocals(config) ==
    LET name == get(config, "recipe_name")
        description == IF name = None THEN Unbound
                       ELSE get(config, "recipe_description")
        persons == IF description \in {Unbound, None} THEN Unbound
                   ELSE get(config, "recipe_persons")
        time == IF persons \in {Unbound, None} THEN Unbound
                ELSE get(config, "recipe_time")
    IN [name |-> name, description |-> description, persons |-> persons, time |-> time,
        missing |-> None \in {name, description, persons, time}]

parse_recipe_info(data_of, source, page, self) ==
    LET look == get_recipe_info_config(data_of, source) IN
    IF look.raised # "none" THEN [self EXCEPT !.raised = look.raised, !.printed = {}]
    ELSE
    LET L == InfoLocals(look.value)
        s0 == [self EXCEPT !.raised = "none",
                           !.printed = IF L.missing THEN {"ERROR in parse_recipe_info()"}
                                       ELSE {}]
        r_name == Locate(page, L.name)
        s1 == IF r_name.raised # "none" THEN [s0 EXCEPT !.raised = r_name.raised]
              ELSE [s0 EXCEPT !.recipe_name = extract_text(r_name)]
        r_persons == Locate(page, L.persons)
        s2 == IF s1.raised # "none" THEN s1
              ELSE IF r_persons.raised # "none" THEN [s1 EXCEPT !.raised = r_persons.raised]
              ELSE [s1 EXCEPT !.number_of_persons =
                        set_number_of_persons(extract_text(r_persons))]
        r_time == Locate(page, L.time)
        s3 == IF s2.raised # "none" THEN s2
              ELSE IF r_time.raised # "none" THEN [s2 EXCEPT !.raised = r_time.raised]
              ELSE [s2 EXCEPT !.time_duration = extract_text(r_time)]
    IN s3

(* parse_ingredients *)
parse_ingredients(data_of, source, page, self) ==
    LET look == get_ingredients_config(data_of, source) IN
    IF look.raised # "none" THEN [self EXCEPT !.raised = look.raised, !.printed = {}]
    ELSE
    LET ingredients == get(look.value, "recipe_ingredients")
        s0 == [self EXCEPT !.raised = "none",
                           !.printed = IF ingredients = None
                                       THEN {"ERROR in parse_ingredients()"} ELSE {}]
        ingredients_section == select_one(page, ingredients)
    IN IF ingredients_section.raised # "none"
       THEN [s0 EXCEPT !.raised = ingredients_section.raised]
       ELSE [s0 EXCEPT !.ingredients_source =
                IF ingredients_section.elem.found THEN ingredients_section.elem.li ELSE <<>>]

(* parse_preparation_steps *)
ScriptMarker == <<"s", "c", "r", "i", "p", "t">>

parse_preparation_steps(data_of, source, page, self) ==
    LET look == get_preparation_config(data_of, source) IN
    IF look.raised # "none" THEN [self EXCEPT !.raised = look.raised, !.printed = {}]
    ELSE
    LET steps == get(look.value, "recipe_prepration")
        s0 == [self EXCEPT !.raised = "none",
                           !.printed = IF steps = None
                                       THEN {"ERROR in parse_preparation_steps()"} ELSE {}]
        preparation_section == select_one(page, steps)
        elem == preparation_section.elem
    IN IF preparation_section.raised # "none"
       THEN [s0 EXCEPT !.raised = preparation_section.raised]
       ELSE IF Contains(steps.s, ScriptMarker)
       THEN IF ~elem.found THEN [s0 EXCEPT !.raised = "AttributeError"]   \* None.string
            ELSE IF elem.json.kind = "None"
                 THEN [s0 EXCEPT !.raised = "AttributeError"]            \* None.strip()
            ELSE IF elem.json.kind = "malformed"
                 THEN [s0 EXCEPT !.printed = @ \cup {"Error decoding JSON"}]
            ELSE IF elem.json.kind = "array"
                 THEN [s0 EXCEPT !.raised = "AttributeError"]            \* list.get
            ELSE [s0 EXCEPT !.preparation_steps =
                      IF elem.json.has THEN elem.json.instr ELSE <<>>]
       ELSE [s0 EXCEPT !.preparation_steps = IF elem.found THEN elem.li ELSE <<>>]


----------------------------------------------------------------------------
(* Persistence.  The tables hold the committed rows; a row's id is its    *)
(* position (AUTOINCREMENT, no row is ever deleted).  The columns amount, *)
(* unit, ingredient are TEXT: SQLite stores an integer bound to a TEXT    *)
(* column as its decimal text.                                            *)
DigitText == <<"0", "1", "2", "3", "4", "5", "6", "7", "8", "9">>
to_text(v) == IF v.k = "int" THEN StrV(<<DigitText[v.n + 1]>>) ELSE v

UnknownIngredient ==
    StrV(<<"U", "n", "k", "n", "o", "w", "n", " ",
           "I", "n", "g", "r", "e", "d", "i", "e", "n", "t">>)
UnknownUnit == StrV(<<"U", "n", "k", "n", "o", "w", "n", " ", "U", "n", "i", "t">>)

\* insert_ingredient: the row inserted, or the exception of the tokenizer
insert_ingredient(raw_ingredient, rid) ==
    LET t == parse_amount_unit_ingredient(raw_ingredient) IN
    IF t.raised # "none" THEN [raised |-> t.raised, row |-> <<>>]
    ELSE [raised |-> "none",
          row |-> [ingredient |-> IF t.ingredient # None THEN t.ingredient
                                  ELSE UnknownIngredient,
                   amount |-> to_text(IF t.amount # None THEN t.amount ELSE IntV(0)),
                   unit |-> IF t.unit # None THEN t.unit ELSE UnknownUnit,
                   ingredient_source |-> StrV(raw_ingredient),
                   recipe_id |-> rid]]

\* the name column without its UNIQUE constraint
NameNeverTaken(rows, name) == FALSE

\* name TEXT UNIQUE: a NULL name never conflicts
NameTaken(rows, name) ==
    name # None /\ \E i \in 1..Len(rows) : rows[i].name = name

\* recipe_info_to_table, ingredients_to_table, prep_steps_to_table inside
\* data_to_database's try/except/commit.  An exception other than
\* IntegrityError escapes before conn.commit(): nothing is committed.
data_to_database(self, db) ==
    IF NameTaken(db.RecipeInfo, self.recipe_name)
    THEN [raised |-> "none",
          printed |-> {"SQLite Error", "Failed to insert record due to duplicate name."},
          recipe_id |-> self.recipe_id, db |-> db]
    ELSE
    LET id == IntV(Len(db.RecipeInfo) + 1)
        info == [id |-> id, name |-> self.recipe_name,
                 description |-> self.recipe_description,
                 number_of_persons |-> self.number_of_persons,
                 time_duration |-> self.time_duration,
                 source_url |-> self.source_url]
        ins == [i \in 1..Len(self.ingredients_source) |->
                    insert_ingredient(self.ingredients_source[i], id)]
        failed == {i \in 1..Len(ins) : ins[i].raised # "none"}
        steps == [i \in 1..Len(self.preparation_steps) |->
                    [step |-> StrV(self.preparation_steps[i]), recipe_id |-> id]]
    IN IF failed # {}
       THEN [raised |-> ins[CHOOSE i \in failed : \A j \in failed : i <= j].raised,
             printed |-> {}, recipe_id |-> id, db |-> db]
       ELSE [raised |-> "none", printed |-> {"saved to database."}, recipe_id |-> id,
             db |-> [RecipeInfo |-> Append(db.RecipeInfo, info),
                     Ingredients |-> db.Ingredients \o [i \in 1..Len(ins) |-> ins[i].row],
                     Preparation |-> db.Preparation \o steps]]

----------------------------------------------------------------------------
(* save_recipe_image *)
image_path(image_folder, image_name) ==
    image_folder \o <<"/">> \o image_name \o <<".", "j", "p", "g">>

save_recipe_image(data_of, source, page, fs) ==
    LET look == get_images_config(data_of, source) IN
    IF look.raised # "none" THEN [fs EXCEPT !.raised = look.raised, !.printed = {}]
    ELSE
    LET image_folder == get(look.value, "image_folder")
        image_container_selector == get(look.value, "image_container_selector")
        image_tag_selector == get(look.value, "image_tag_selector")
        image_name_attribute == get(look.value, "image_name_attribute")
        s0 == [fs EXCEPT !.raised = "none", !.printed = {}]
        image_container_div == select_one(page, image_container_selector)
        image_tag == image_container_div.elem.img
    IN IF image_container_div.raised # "none"
       THEN [s0 EXCEPT !.raised = image_container_div.raised]
       ELSE IF ~image_container_div.elem.found
       THEN [s0 EXCEPT !.printed = {"No div tag found for image container."}]
       ELSE IF image_tag_selector.k # "str" THEN [s0 EXCEPT !.raised = "TypeError"]
       ELSE IF ~image_tag.found
       THEN [s0 EXCEPT !.printed = {"No image tag found in the image container."}]
       ELSE IF AttrSrc \notin DOMAIN image_tag.attrs THEN [s0 EXCEPT !.raised = "KeyError"]
       ELSE IF image_name_attribute.k # "str"
               \/ image_name_attribute.s \notin DOMAIN image_tag.attrs
       THEN [s0 EXCEPT !.raised = "KeyError"]
       ELSE IF image_folder.k # "str" THEN [s0 EXCEPT !.raised = "TypeError"]
       ELSE IF image_folder.s \notin fs.folders
       THEN \* os.makedirs, then open(image_path) with image_path never assigned
            [s0 EXCEPT !.folders = @ \cup {image_folder.s}, !.raised = "UnboundLocalError"]
       ELSE [s0 EXCEPT !.files = @ \cup
                {image_path(image_folder.s, image_tag.attrs[image_name_attribute.s])}]


----------------------------------------------------------------------------
(* The calls.  Each Call* is one whole method call on the current         *)
(* instance; it leaves pc to the specification that uses it.              *)

Self == [raised |-> raised, printed |-> printed, recipe_name |-> recipe_name,
         recipe_description |-> recipe_description,
         number_of_persons |-> number_of_persons, time_duration |-> time_duration,
         source_url |-> source_url, recipe_id |-> recipe_id,
         ingredients_source |-> ingredients_source,
         preparation_steps |-> preparation_steps]

TokIdle == [raised |-> "not called", amount |-> None, unit |-> None, ingredient |-> None]
CfgIdle == [raised |-> "not called", value |-> EmptyDict]

\* RecipeParser.__init__, with get_html_content
CallInit(url, site) ==
    /\ last' = "__init__"
    /\ printed' = {}
    /\ IF Web(url).status_code = StatusOk
       THEN /\ raised' = "none"
            /\ alive' = TRUE
            /\ recipe_source' = normalize_source(site)
            /\ recipe_id' = None
            /\ recipe_name' = None
            /\ recipe_description' = None
            /\ number_of_persons' = None
            /\ time_duration' = None
            /\ source_url' = url
            /\ ingredients_source' = <<>>
            /\ preparation_steps' = <<>>
            /\ soup' = Web(url).page
       ELSE /\ raised' = "Exception"
            /\ UNCHANGED parserVars
    /\ UNCHANGED <<config_data, dbVars, fsVars, tokVars, cfgVars>>

CallParseRecipeInfo ==
    /\ alive
    /\ LET r == parse_recipe_info(config_data, recipe_source, soup, Self) IN
        /\ last' = "parse_recipe_info"
        /\ raised' = r.raised
        /\ printed' = r.printed
        /\ recipe_name' = r.recipe_name
        /\ number_of_persons' = r.number_of_persons
        /\ time_duration' = r.time_duration
    /\ UNCHANGED <<config_data, alive, recipe_source, recipe_id, recipe_description,
                   source_url, ingredients_source, preparation_steps, soup,
                   dbVars, fsVars, tokVars, cfgVars>>

CallParseIngredients ==
    /\ alive
    /\ LET r == parse_ingredients(config_data, recipe_source, soup, Self) IN
        /\ last' = "parse_ingredients"
        /\ raised' = r.raised
        /\ printed' = r.printed
        /\ ingredients_source' = r.ingredients_source
    /\ UNCHANGED <<config_data, alive, recipe_source, recipe_id, recipe_name,
                   recipe_description, number_of_persons, time_duration, source_url,
                   preparation_steps, soup, dbVars, fsVars, tokVars, cfgVars>>

CallParsePreparationSteps ==
    /\ alive
    /\ LET r == parse_preparation_steps(config_data, recipe_source, soup, Self) IN
        /\ last' = "parse_preparation_steps"
        /\ raised' = r.raised
        /\ printed' = r.printed
        /\ preparation_steps' = r.preparation_steps
    /\ UNCHANGED <<config_data, alive, recipe_source, recipe_id, recipe_name,
                   recipe_description, number_of_persons, time_duration, source_url,
                   ingredients_source, soup, dbVars, fsVars, tokVars, cfgVars>>

\* get_recipe_info builds a dict and changes nothing
CallGetRecipeInfo ==
    /\ alive
    /\ last' = "get_recipe_info"
    /\ raised' = "none"
    /\ printed' = {}
    /\ UNCHANGED <<config_data, parserVars, dbVars, fsVars, tokVars, cfgVars>>

Db == [RecipeInfo |-> RecipeInfo, Ingredients |-> Ingredients, Preparation |-> Preparation]

CallDataToDatabase ==
    /\ alive
    /\ Len(RecipeInfo) < MaxRows \/ NameTaken(RecipeInfo, recipe_name)
    /\ LET r == data_to_database(Self, Db) IN
        /\ last' = "data_to_database"
        /\ raised' = r.raised
        /\ printed' = r.printed
        /\ recipe_id' = r.recipe_id
        /\ RecipeInfo' = r.db.RecipeInfo
        /\ Ingredients' = r.db.Ingredients
        /\ Preparation' = r.db.Preparation
    /\ UNCHANGED <<config_data, alive, recipe_source, recipe_name, recipe_description,
                   number_of_persons, time_duration, source_url, ingredients_source,
                   preparation_steps, soup, fsVars, tokVars, cfgVars>>

CallSaveRecipeImage ==
    /\ alive
    /\ LET r == save_recipe_image(config_data, recipe_source, soup,
                                  [raised |-> raised, printed |-> printed,
                                   folders |-> folders, files |-> files]) IN
        /\ last' = "save_recipe_image"
        /\ raised' = r.raised
        /\ printed' = r.printed
        /\ folders' = r.folders
        /\ files' = r.files
    /\ UNCHANGED <<config_data, parserVars, dbVars, tokVars, cfgVars>>

----------------------------------------------------------------------------
(* Spec: a client holding parser instances and calling the parse methods *)
(* in any order.                                                          *)
InitObjects ==
    /\ alive = FALSE
    /\ recipe_source = <<>>
    /\ recipe_id = None
    /\ recipe_name = None
    /\ recipe_description = None
    /\ number_of_persons = None
    /\ time_duration = None
    /\ source_url = ""
    /\ ingredients_source = <<>>
    /\ preparation_steps = <<>>
    /\ soup = EmptyDict
    /\ RecipeInfo = <<>>
    /\ Ingredients = <<>>
    /\ Preparation = <<>>
    /\ files = {}
    /\ last = "ConfigLoader"
    /\ raised = "none"
    /\ printed = {}

InitParser ==
    /\ config_data \in MainConfigs
    /\ InitObjects
    /\ line = <<>>
    /\ tok = TokIdle
    /\ cfg_key = <<>>
    /\ cfg_result = CfgIdle

Init == InitParser /\ folders = {} /\ pc = "api"

NewParser == (\E url \in Urls, site \in SiteInputs : CallInit(url, site)) /\ UNCHANGED pc
ParseRecipeInfo == CallParseRecipeInfo /\ UNCHANGED pc
ParseIngredients == CallParseIngredients /\ UNCHANGED pc
ParsePreparationSteps == CallParsePreparationSteps /\ UNCHANGED pc

Next ==
    \/ NewParser
    \/ ParseRecipeInfo
    \/ ParseIngredients
    \/ ParsePreparationSteps

Spec == Init /\ [][Next]_vars

----------------------------------------------------------------------------
(* SpecMain: the __main__ script.  One recipe after the other is read,    *)
(* parsed, saved and its image stored; an exception that escapes a call   *)
(* ends the process.  The database and the image folder outlive the       *)
(* process, which may be started again.                                   *)
After(next) == pc' = IF raised' = "none" THEN next ELSE "aborted"

InitMain == InitParser /\ folders \in {{}, {FolderImages}} /\ pc = "input"

MainInput ==
    /\ pc = "input"
    /\ \E url \in Urls, site \in SiteInputs : CallInit(url, site)
    /\ After("parse_recipe_info")

MainParseRecipeInfo ==
    pc = "parse_recipe_info" /\ CallParseRecipeInfo /\ After("parse_ingredients")

MainParseIngredients ==
    pc = "parse_ingredients" /\ CallParseIngredients /\ After("parse_preparation_steps")

MainParsePreparationSteps ==
    pc = "parse_preparation_steps" /\ CallParsePreparationSteps /\ After("get_recipe_info")

MainGetRecipeInfo ==
    pc = "get_recipe_info" /\ CallGetRecipeInfo /\ After("data_to_database")

MainDataToDatabase ==
    pc = "data_to_database" /\ CallDataToDatabase /\ After("save_recipe_image")

MainSaveRecipeImage ==
    pc = "save_recipe_image" /\ CallSaveRecipeImage /\ After("input")

Restart ==
    /\ pc = "aborted"
    /\ pc' = "input"
    /\ alive' = FALSE
    /\ last' = "ConfigLoader"
    /\ raised' = "none"
    /\ printed' = {}
    /\ UNCHANGED <<config_data, recipe_source, recipe_id, recipe_name, recipe_description,
                   number_of_persons, time_duration, source_url, ingredients_source,
                   preparation_steps, soup, dbVars, fsVars, tokVars, cfgVars>>

NextMain ==
    \/ MainInput
    \/ MainParseRecipeInfo
    \/ MainParseIngredients
    \/ MainParsePreparationSteps
    \/ MainGetRecipeInfo
    \/ MainDataToDatabase
    \/ MainSaveRecipeImage
    \/ Restart

SpecMain == InitMain /\ [][NextMain]_vars

----------------------------------------------------------------------------
(* SpecDb: a client that also saves its instances, in any order and any   *)
(* number of times.                                                       *)
DbUrls == {"u1", "u2", "u3", "u4", "u404"}
DbSites == {<<"a">>}

InitDb == Init /\ config_data = ConfigOf(EntryList)

DbNewParser == (\E url \in DbUrls, site \in DbSites : CallInit(url, site)) /\ UNCHANGED pc
DataToDatabase == CallDataToDatabase /\ UNCHANGED pc

NextDb ==
    \/ DbNewParser
    \/ ParseRecipeInfo
    \/ ParseIngredients
    \/ ParsePreparationSteps
    \/ DataToDatabase

SpecDb == InitDb /\ [][NextDb]_vars

----------------------------------------------------------------------------
(* SpecTok: parse_amount_unit_ingredient applied to every line of at most *)
(* MaxLen characters over a digit, a letter and a space.                  *)
TokChars == {"2", "a", " "}
Lines == UNION {[1..n -> TokChars] : n \in 0..MaxLen}

InitTok ==
    /\ config_data = ConfigOf(EntryList)
    /\ InitObjects
    /\ folders = {}
    /\ pc = "api"
    /\ line \in Lines
    /\ tok = TokIdle
    /\ cfg_key = <<>>
    /\ cfg_result = CfgIdle

Tokenize ==
    /\ tok = TokIdle
    /\ tok' = parse_amount_unit_ingredient(line)
    /\ UNCHANGED <<config_data, parserVars, dbVars, fsVars, callVars, pc, line, cfgVars>>

NextTok == Tokenize

SpecTok == InitTok /\ [][NextTok]_vars

----------------------------------------------------------------------------
(* SpecCfg: the four lookups on every configuration document of           *)
(* ConfigDocs, for every source key of AskedKeys.                         *)
InitCfg ==
    /\ config_data \in ConfigDocs
    /\ InitObjects
    /\ folders = {}
    /\ pc = "api"
    /\ line = <<>>
    /\ tok = TokIdle
    /\ cfg_key = <<>>
    /\ cfg_result = CfgIdle

Lookup(name, result) ==
    /\ last' = name
    /\ cfg_result' = result
    /\ raised' = result.raised
    /\ printed' = {}
    /\ UNCHANGED <<config_data, parserVars, dbVars, fsVars, pc, tokVars>>

GetRecipeInfoConfig ==
    \E key \in AskedKeys :
        cfg_key' = key
        /\ Lookup("get_recipe_info_config", get_recipe_info_config(config_data, key))

GetPreparationConfig ==
    \E key \in AskedKeys :
        cfg_key' = key
        /\ Lookup("get_preparation_config", get_preparation_config(config_data, key))

GetIngredientsConfig ==
    \E key \in AskedKeys :
        cfg_key' = key
        /\ Lookup("get_ingredients_config", get_ingredients_config(config_data, key))

GetImagesConfig ==
    \E key \in AskedKeys :
        cfg_key' = key
        /\ Lookup("get_images_config", get_images_config(config_data, key))

NextCfg ==
    \/ GetRecipeInfoConfig
    \/ GetPreparationConfig
    \/ GetIngredientsConfig
    \/ GetImagesConfig

SpecCfg == InitCfg /\ [][NextCfg]_vars


----------------------------------------------------------------------------
(* The tokens of a line, stated without split: a token is a maximal run   *)
(* of characters that are not whitespace.                                 *)
TokenStarts(t) ==
    {i \in 1..Len(t) : t[i] \notin Whitespace /\ (i = 1 \/ t[i - 1] \in Whitespace)}
TokenEnds(t) ==
    {i \in 1..Len(t) : t[i] \notin Whitespace /\ (i = Len(t) \/ t[i + 1] \in Whitespace)}
NthOf(S, k) == CHOOSE x \in S : Cardinality({y \in S : y < x}) = k - 1
NumTokens(t) == Cardinality(TokenStarts(t))
Token(t, k) == SubSeq(t, NthOf(TokenStarts(t), k), NthOf(TokenEnds(t), k))
AllDigits(t) == \A i \in 1..Len(t) : t[i] \in Digits

\* name is the tokens of t from the k-th on, joined by single spaces
IsJoinedFrom(name, t, k) ==
    /\ NumTokens(name) = (IF NumTokens(t) >= k THEN NumTokens(t) - k + 1 ELSE 0)
    /\ \A j \in 1..NumTokens(name) : Token(name, j) = Token(t, j + k - 1)
    /\ \A i \in 1..Len(name) :
          name[i] \in Whitespace =>
              name[i] = " " /\ 1 < i /\ i < Len(name) /\ name[i + 1] \notin Whitespace

Called == tok.raised # "not called"
NumericLead == NumTokens(line) >= 1 /\ AllDigits(Token(line, 1))
StrUnknown == StrV(<<"u", "n", "k", "n", "o", "w", "n">>)

(* C1: for a line whose first token is purely numeric and whose second   *)
(* token exists and is shorter than 5 characters, the tokenizer returns   *)
(* quantity = the first token, unit = the second token and name = the     *)
(* tokens from index 2 on joined by single spaces (empty when there are   *)
(* exactly two tokens).                                                   *)
C1_ShortSecondTokenIsUnit ==
    (Called /\ NumericLead /\ NumTokens(line) >= 2 /\ Len(Token(line, 2)) < 5) =>
        /\ tok.raised = "none"
        /\ tok.amount = StrV(Token(line, 1))
        /\ tok.unit = StrV(Token(line, 2))
        /\ tok.ingredient.k = "str"
        /\ IsJoinedFrom(tok.ingredient.s, line, 3)
        /\ (NumTokens(line) = 2 => tok.ingredient = StrV(<<>>))

C1_Witness ==
    /\ Called /\ NumericLead /\ NumTokens(line) = 3
    /\ Len(Token(line, 2)) = 4
    /\ tok.unit = StrV(Token(line, 2))
    /\ tok.ingredient = StrV(Token(line, 3))

C10_NeverRaises == Called => tok.raised = "none"


----------------------------------------------------------------------------
(* Claims about the section lookups (SpecCfg) *)

SectionOf(call) ==
    CASE call = "get_recipe_info_config" -> "recipe_info_config"
      [] call = "get_preparation_config" -> "preparation_config"
      [] call = "get_ingredients_config" -> "ingredients_config"
      [] call = "get_images_config" -> "image_config"
      [] call = "parse_recipe_info" -> "recipe_info_config"
      [] call = "parse_preparation_steps" -> "preparation_config"
      [] call = "parse_ingredients" -> "ingredients_config"
      [] call = "save_recipe_image" -> "image_config"
      [] OTHER -> "none"

(* C5: for each of the four lookups and every source key, when the key is *)
(* not in the configuration document, or the section is missing from its  *)
(* entry, the lookup returns an empty map and does not raise.             *)
C5_AbsentGivesEmptyMap ==
    (/\ cfg_result.raised # "not called"
     /\ \/ cfg_key \notin DOMAIN config_data
        \/ SectionOf(last) \notin DOMAIN config_data[cfg_key]) =>
        cfg_result.raised = "none" /\ cfg_result.value = EmptyDict

----------------------------------------------------------------------------
(* Claims about the parse methods (Spec, SpecMain) *)

\* the entry and the section the last call read, as the document holds them
EntryRead == IF recipe_source \in DOMAIN config_data THEN config_data[recipe_source]
             ELSE EmptyDict
SectionRead == IF SectionOf(last) \in DOMAIN EntryRead THEN EntryRead[SectionOf(last)]
               ELSE EmptyDict
LocatorKeys(call) ==
    CASE call = "parse_recipe_info" ->
            {"recipe_name", "recipe_description", "recipe_persons", "recipe_time"}
      [] call = "parse_ingredients" -> {"recipe_ingredients"}
      [] call = "parse_preparation_steps" -> {"recipe_prepration"}
      [] call = "save_recipe_image" ->
            {"image_folder", "image_container_selector", "image_tag_selector",
             "image_name_attribute"}
      [] OTHER -> {}
Stages == {"parse_recipe_info", "parse_ingredients", "parse_preparation_steps",
           "save_recipe_image"}
Matched(key) == key \in DOMAIN SectionRead /\ SectionRead[key] \in DOMAIN soup
ElementAt(key) == soup[SectionRead[key]]

(* C6: in the pipeline info -> ingredients -> steps -> image, a stage     *)
(* whose configuration section is empty or lacks a locator key reports    *)
(* it, leaves its fields Absent/empty and returns normally, so that the   *)
(* run is not aborted and the later stages run.                           *)
C6_MissingLocatorDoesNotAbort ==
    (/\ last \in Stages
     /\ EntryRead # EmptyDict
     /\ ~(LocatorKeys(last) \subseteq DOMAIN SectionRead)) =>
        /\ raised = "none"
        /\ pc # "aborted"
        /\ (last = "parse_recipe_info" =>
                recipe_name = None /\ number_of_persons = None /\ time_duration = None)
        /\ (last = "parse_ingredients" => ingredients_source = <<>>)
        /\ (last = "parse_preparation_steps" => preparation_steps = <<>>)

(* C7: in structured-data mode (the preparation locator contains          *)
(* "script"), when the text of the located block cannot be parsed,        *)
(* parse_preparation_steps reports the error, returns, and                *)
(* preparation_steps is empty.                                            *)
C7_UnparsableBlockGivesNoSteps ==
    (/\ last = "parse_preparation_steps"
     /\ "recipe_prepration" \in DOMAIN SectionRead
     /\ Contains(SectionRead["recipe_prepration"], <<"s", "c", "r", "i", "p", "t">>)
     /\ Matched("recipe_prepration")
     /\ ElementAt("recipe_prepration").json.kind \in {"None", "malformed"}) =>
        /\ raised = "none"
        /\ "Error decoding JSON" \in printed
        /\ preparation_steps = <<>>

(* C8: the stored serving size is the extracted text with every non-digit *)
(* removed; when the text holds no digit, or the field was Absent, the    *)
(* stored value is Absent, never an empty string.                         *)
C8_PersonsIsDigitsOrAbsent ==
    (last = "parse_recipe_info" /\ raised = "none") =>
        /\ number_of_persons # StrV(<<>>)
        /\ number_of_persons =
              IF Matched("recipe_persons")
                 /\ \E i \in 1..Len(ElementAt("recipe_persons").text) :
                        ElementAt("recipe_persons").text[i] \in Digits
              THEN StrV(only_digits(ElementAt("recipe_persons").text))
              ELSE None

(* C9: with the name, persons and duration locators configured, a locator *)
(* that matches no element of the page makes parse_recipe_info store      *)
(* Absent (None) for its field, and the call does not raise.              *)
C9_NoMatchGivesAbsent ==
    (/\ last = "parse_recipe_info"
     /\ LocatorKeys(last) \subseteq DOMAIN SectionRead) =>
        /\ raised = "none"
        /\ (~Matched("recipe_name") => recipe_name = None)
        /\ (~Matched("recipe_persons") => number_of_persons = None)
        /\ (~Matched("recipe_time") => time_duration = None)

C9_Witness ==
    /\ last = "parse_recipe_info"
    /\ LocatorKeys(last) \subseteq DOMAIN SectionRead
    /\ ~Matched("recipe_name") /\ ~Matched("recipe_time") /\ Matched("recipe_persons")
    /\ raised = "none"
    /\ recipe_name = None /\ time_duration = None

----------------------------------------------------------------------------
(* Claims about persistence (SpecDb) *)

SameNameStored ==
    recipe_name.k = "str" /\ \E i \in 1..Len(RecipeInfo) : RecipeInfo[i].name = recipe_name

(* C4: in any sequence of data_to_database calls, saving a recipe whose   *)
(* name is the name of a stored recipe ends in a reported conflict: the   *)
(* call returns normally, and no row of the three tables is changed or    *)
(* added.  (A name is a string: a recipe whose name is Absent has none,   *)
(* and the NULL it is stored with equals no stored name.)                 *)
C4_DuplicateNameIsReportedConflict ==
    [][(last' = "data_to_database" /\ SameNameStored) =>
          /\ raised' = "none"
          /\ "Failed to insert record due to duplicate name." \in printed'
          /\ UNCHANGED dbVars]_vars

C4_Witness ==
    /\ last = "data_to_database"
    /\ raised = "none"
    /\ "Failed to insert record due to duplicate name." \in printed
    /\ SameNameStored
    /\ Len(RecipeInfo) >= 1 /\ Len(Ingredients) >= 1 /\ Len(Preparation) >= 1


====
